---- MODULE Spec2Model ----
(***************************************************************************)
(* cdbgen: the compilation database synchronisation of src/main.rs.        *)
(*                                                                         *)
(* Every compiler invocation is one OS process that calls                  *)
(* process_compile_commands_json once.  The processes share one file, the  *)
(* database, and one POSIX record lock on it.  The model follows the       *)
(* function statement by statement; the file is a sequence of tokens (the  *)
(* bytes, at the granularity the JSON parser sees), every process has its  *)
(* own file offset, and the operating system may fail a system call or     *)
(* kill a process.                                                         *)
(***************************************************************************)
EXTENDS Integers, Sequences, FiniteSets, TLC

\* ------------------------------------------------------------------ bounds
NumProcs == 2          \* concurrently running invocations
MaxFaults == 1         \* system calls the OS fails, or processes it kills

Procs == 1..NumProcs
None == 0

\* ------------------------------------------------------------------ strings
\* The strings of the model in ascending byte order, which is the order of
\* Rust's Ord for String ('-' 0x2d < '/' 0x2f < 'a' < 'b' < 'c').
StrOrder == <<"-O2", "-O3", "/bin/cc", "/dA", "/dB", "a.c", "b.c", "cc">>

Rank(s) == CHOOSE i \in 1..Len(StrOrder) : StrOrder[i] = s

StrLess(a, b) == Rank(a) < Rank(b)

Dirs == {"/dA", "/dB"}
Files == {"a.c", "b.c"}
O2 == <<"cc", "-O2">>
O3 == <<"cc", "-O3">>
ArgVecs == {O2, O3}

\* ------------------------------------------------------------------ Entry
Entry(d, f, a) == [directory |-> d, file |-> f, arguments |-> a]

\* Vec<String>'s Ord: lexicographic, a proper prefix is smaller.
RECURSIVE VecLess(_, _)
VecLess(u, v) ==
    IF u = <<>> THEN v # <<>>
    ELSE IF v = <<>> THEN FALSE
    ELSE IF Head(u) = Head(v) THEN VecLess(Tail(u), Tail(v))
    ELSE StrLess(Head(u), Head(v))

\* An order that looks at the file first.
EntryLessFileFirst(a, b) ==
    IF a.file # b.file THEN StrLess(a.file, b.file)
    ELSE IF a.directory # b.directory THEN StrLess(a.directory, b.directory)
    ELSE VecLess(a.arguments, b.arguments)

\* #[derive(Ord)] on Entry: directory, then file, then arguments.
EntryLess(a, b) ==
    IF a.directory # b.directory THEN StrLess(a.directory, b.directory)
    ELSE IF a.file # b.file THEN StrLess(a.file, b.file)
    ELSE VecLess(a.arguments, b.arguments)

\* The iteration order of a BTreeSet<Entry>.
RECURSIVE BTreeIter(_)
BTreeIter(S) ==
    IF S = {} THEN <<>>
    ELSE LET m == CHOOSE x \in S : \A y \in S \ {x} : EntryLess(x, y)
         IN  <<m>> \o BTreeIter(S \ {m})

\* ------------------------------------------------------------------ bytes
\* A token of the file: "[" , "]" , a newline, one serialized record, a byte
\* that is no JSON (garbage) or a NUL of a hole.
NoEntry == [directory |-> "", file |-> "", arguments |-> <<>>]
Tok(k) == [k |-> k, e |-> NoEntry]
LB == Tok("[")
RB == Tok("]")
NL == Tok("nl")
NUL == Tok("nul")
JUNK == Tok("junk")
Rec(e) == [k |-> "rec", e |-> e]

\* serde_json::to_string_pretty of a BTreeSet<Entry>: an array of the
\* records in the set's order.
to_string_pretty(S) ==
    LET it == BTreeIter(S)
    IN  <<LB>> \o [i \in 1..Len(it) |-> Rec(it[i])] \o <<RB>>

IsWs(t) == t.k = "nl"

NonWs(s) == SelectSeq(s, LAMBDA t : ~IsWs(t))

\* data.trim().is_empty()
TrimIsEmpty(s) == NonWs(s) = <<>>

\* serde_json::from_str::<BTreeSet<Entry>>: white space between tokens is
\* skipped, the rest must be one array of records; equal records collapse.
from_str(s) ==
    LET t == NonWs(s)
        n == Len(t)
        ok == /\ n >= 2
              /\ t[1] = LB
              /\ t[n] = RB
              /\ \A i \in 2..(n - 1) : t[i].k = "rec"
    IN  [ok |-> ok,
         set |-> IF ok THEN {t[i].e : i \in 2..(n - 1)} ELSE {}]

\* A load that hands every text to the parser.
LoadStrict(s) == from_str(s)

\* A load that takes text it cannot parse for the empty set.
LoadLenient(s) ==
    IF from_str(s).ok THEN from_str(s) ELSE [ok |-> TRUE, set |-> {}]

\* Lines 97-101: the set loaded from the text read.
Load(s) ==
    IF TrimIsEmpty(s) THEN [ok |-> TRUE, set |-> {}] ELSE from_str(s)

\* write(2) of bytes at offset off: a hole is filled with NULs, bytes
\* behind the written range stay.
WriteAt(c, off, bytes) ==
    LET n == Len(c)
        m == Len(bytes)
        end == IF off + m > n THEN off + m ELSE n
    IN  [i \in 1..end |->
            IF i > off /\ i <= off + m THEN bytes[i - off]
            ELSE IF i <= n THEN c[i]
            ELSE NUL]

\* ------------------------------------------------------------------ merge
\* A merge that starts from nothing.
KeptNone(old, dir, fs) == {}

\* A merge that removes nothing.
KeptAll(old, dir, fs) == old

\* A merge that looks at the file name alone.
KeptByFile(old, dir, fs) == {e \in old : e.file \notin fs}

\* A merge that drops every record of the directory.
KeptOtherDirs(old, dir, fs) == {e \in old : e.directory # dir}

\* Lines 102-106: the records that stay.
Kept(old, dir, fs) ==
    {e \in old : e.directory # dir \/ e.file \notin fs}

\* A loop that stops after the first file.
FreshOne(dir, args, fs) ==
    IF fs = {} THEN {} ELSE {Entry(dir, CHOOSE f \in fs : TRUE, args)}

\* Lines 107-113: the records of this call.
Fresh(dir, args, fs) == {Entry(dir, f, args) : f \in fs}

\* A merge that keeps the record a key already has.
MergeFirstWins(old, dir, args, fs) ==
    old \cup {e \in Fresh(dir, args, fs) :
                 \A o \in old : o.directory # e.directory \/ o.file # e.file}

\* A merge that inserts and removes nothing.
MergeInsertOnly(old, dir, args, fs) == old \cup Fresh(dir, args, fs)

\* Lines 102-113.
Merge(old, dir, args, fs) == Kept(old, dir, fs) \cup Fresh(dir, args, fs)

\* ------------------------------------------------------------------ state
VARIABLES
    exists,        \* the database file is there
    content,       \* its bytes (<<>> while it is absent)
    holder,        \* the process that owns the lock on it, or None
    pc,            \* where each process is in process_compile_commands_json
    directory,     \* the call's arguments
    arguments,
    files,
    round,         \* "first", or "again" once the build was run a second time
    argv,          \* env::args() of the process, <<>> when main is not modelled
    compiler,      \* line 173, "" before
    pos,           \* the offset of the process's file handle
    data,          \* line 94
    old_entries,   \* line 97
    new_entries,   \* line 102
    err,           \* the error the call returned, "none" so far
    faultsLeft,    \* failures the operating system may still cause
    file0,         \* history: the file when the first call began
    created,       \* history: a step of the process made the file exist
    wrote,         \* history: a step of the process changed the bytes
    lastCS,        \* history: the process whose critical section ended last
    seenCS,        \* history: lastCS when the process got the lock
    served,        \* history: the processes that returned Ok, in that order
    torn           \* history: a process failed or died between lines 117 and 119

vars == <<exists, content, holder, pc, directory, arguments, files, round, argv,
          compiler, pos, data,
          old_entries, new_entries, err, faultsLeft, file0, created, wrote,
          lastCS, seenCS, served, torn>>

inputs == <<directory, arguments, files, round, argv, compiler>>
locals == <<pos, data, old_entries, new_entries, seenCS>>
env == <<err, holder, lastCS, faultsLeft>>

Call(d, a, fs) == [directory |-> d, arguments |-> a, files |-> fs]
Input(p) == Call(directory[p], arguments[p], files[p])

\* The calls an invocation may make: a file compiled, compiled again with
\* other arguments, compiled in another directory, and two files compiled by
\* one command.
Calls ==
    { Call("/dA", O2, {"a.c"}),
      Call("/dA", O3, {"a.c"}),
      Call("/dB", O2, {"a.c"}),
      Call("/dA", O3, {"a.c", "b.c"}) }

\* The files the first invocation may find.
InitFiles ==
    { [exists |-> FALSE, content |-> <<>>],
      [exists |-> TRUE, content |-> <<NL>>],
      [exists |-> TRUE, content |-> <<JUNK>>],
      \* written by hand: no order, one key twice, no final newline
      [exists |-> TRUE,
       content |-> <<LB, Rec(Entry("/dB", "b.c", O3)), NL,
                         Rec(Entry("/dA", "a.c", O3)),
                         Rec(Entry("/dA", "a.c", O2)), RB>>] }

\* Every process is about to call process_compile_commands_json.
Fresh0 ==
    /\ exists = file0.exists
    /\ content = file0.content
    /\ holder = None
    /\ pc = [p \in Procs |-> "create"]
    /\ round = "first"
    /\ argv = [p \in Procs |-> <<>>]
    /\ compiler = [p \in Procs |-> ""]
    /\ pos = [p \in Procs |-> 0]
    /\ data = [p \in Procs |-> <<>>]
    /\ old_entries = [p \in Procs |-> {}]
    /\ new_entries = [p \in Procs |-> {}]
    /\ err = [p \in Procs |-> "none"]
    /\ created = [p \in Procs |-> FALSE]
    /\ wrote = [p \in Procs |-> FALSE]
    /\ lastCS = None
    /\ seenCS = [p \in Procs |-> None]
    /\ served = <<>>
    /\ torn = FALSE

Init ==
    /\ file0 \in InitFiles
    /\ directory \in [Procs -> Dirs]
    /\ arguments \in [Procs -> ArgVecs]
    /\ files \in [Procs -> SUBSET Files]
    /\ \A p \in Procs : Input(p) \in Calls
    /\ faultsLeft \in {0, MaxFaults}
    /\ Fresh0

\* tests::main, lines 259-289: a database that is not there yet (or holds
\* nothing), and every process compiles a file of its own.
InitRounds ==
    /\ file0 \in {f \in InitFiles : TrimIsEmpty(f.content)}
    /\ directory \in [Procs -> Dirs]
    /\ arguments \in [Procs -> ArgVecs]
    /\ files \in [Procs -> {{f} : f \in Files}]
    /\ \A p, q \in Procs :
          (directory[p] = directory[q] /\ files[p] = files[q]) => p = q
    /\ faultsLeft = 0
    /\ Fresh0

\* ------------------------------------------------------------------ steps
\* The statements between set_len(0) and the end of writeln!: the file is
\* truncated and not yet whole.
InWrite == {"seek", "write", "newline"}

\* What the steps of p did to the file so far, and how p ended.
Track(p) ==
    /\ created' = [created EXCEPT ![p] = @ \/ (exists' # exists)]
    /\ wrote' = [wrote EXCEPT ![p] = @ \/ (content' # content)]
    /\ served' = IF pc'[p] = "done" THEN Append(served, p) ELSE served
    /\ torn' = (torn \/ (pc[p] \in InWrite /\ pc'[p] \in {"failed", "killed"}))

\* A handle that leaks: the lock stays.
ReleasedNever(p) == holder

\* A lock given back by the successful return only.
ReleasedIfClean(p) == IF holder = p /\ pc[p] = "ret" THEN None ELSE holder

\* The lock of a process goes with its file handle: dropped handle, or dead
\* process, no lock.
Released(p) == IF holder = p THEN None ELSE holder

\* The critical section of p ends without a successful return.
Broken(p) == IF holder = p THEN None ELSE lastCS

Goto(p, l) == pc' = [pc EXCEPT ![p] = l]

\* The process is over: its handle and its memory are gone.
Exit(p) ==
    /\ pos' = [pos EXCEPT ![p] = 0]
    /\ data' = [data EXCEPT ![p] = <<>>]
    /\ old_entries' = [old_entries EXCEPT ![p] = {}]
    /\ new_entries' = [new_entries EXCEPT ![p] = {}]
    /\ seenCS' = [seenCS EXCEPT ![p] = None]

\* `?` and `return Err`: the call ends with the error, the handle is dropped.
Fail(p, kind) ==
    /\ Goto(p, "failed")
    /\ err' = [err EXCEPT ![p] = kind]
    /\ holder' = Released(p)
    /\ lastCS' = Broken(p)
    /\ Exit(p)

\* The operating system fails the system call p is about to make.
Fault(p, kind) ==
    /\ faultsLeft > 0
    /\ faultsLeft' = faultsLeft - 1
    /\ Fail(p, kind)

\* open(O_CREAT | O_EXCL) of line 74-77.
create_new(ex) == IF ex THEN "AlreadyExists" ELSE "Ok"

\* The bytes of the file after create_new: an existing file is not touched.
create_new_content(ex, c) == IF ex THEN c ELSE <<>>

\* An error arm that lets nothing pass.
ToleratedOkOnly(kind) == kind = "Ok"

\* Lines 79-82: the results the call goes on after.
Tolerated(kind) == kind \in {"Ok", "AlreadyExists"}

\* Lines 74-83.
Create(p) ==
    /\ pc[p] = "create"
    /\ \/ LET kind == create_new(exists)
          IN  /\ exists' = TRUE
              /\ content' = create_new_content(exists, content)
              /\ IF Tolerated(kind)
                 THEN /\ Goto(p, "open")
                      /\ UNCHANGED <<locals, err, holder, lastCS>>
                 ELSE Fail(p, kind)
              /\ UNCHANGED faultsLeft
       \/ /\ Fault(p, "create")
          /\ UNCHANGED <<exists, content>>
    /\ UNCHANGED <<inputs, file0>>
    /\ Track(p)

\* An open with truncate(true).
open_truncates(c) == <<>>

\* The bytes of the file after the open of line 91, which has no truncate.
open_content(c) == c

\* Line 91.
Open(p) ==
    /\ pc[p] = "open"
    /\ \/ /\ content' = open_content(content)
          /\ pos' = [pos EXCEPT ![p] = 0]
          /\ Goto(p, "lock")
          /\ UNCHANGED <<data, old_entries, new_entries, seenCS, env>>
       \/ /\ Fault(p, "open")
          /\ UNCHANGED content
    /\ UNCHANGED <<exists, inputs, file0>>
    /\ Track(p)

\* A lock that excludes nobody.
GrantedAlways(h, p) == TRUE

\* lockf(F_LOCK) returns once no other process owns a lock on the range.
Granted(h, p) == h = None

\* Lines 19-28, 92.
Lock(p) ==
    /\ pc[p] = "lock"
    /\ \/ /\ Granted(holder, p)
          /\ holder' = p
          /\ seenCS' = [seenCS EXCEPT ![p] = lastCS]
          /\ Goto(p, "read")
          /\ UNCHANGED <<pos, data, old_entries, new_entries, err, lastCS, faultsLeft>>
       \/ Fault(p, "lock")
    /\ UNCHANGED <<exists, content, inputs, file0>>
    /\ Track(p)

\* Lines 94-95: read_to_string reads from the offset to the end.
Read(p) ==
    /\ pc[p] = "read"
    /\ \/ /\ data' = [data EXCEPT ![p] = SubSeq(content, pos[p] + 1, Len(content))]
          /\ pos' = [pos EXCEPT ![p] = Len(content)]
          /\ Goto(p, "parse")
          /\ UNCHANGED <<old_entries, new_entries, seenCS, env>>
       \/ Fault(p, "read")
    /\ UNCHANGED <<exists, content, inputs, file0>>
    /\ Track(p)

\* Lines 97-101.
Parse(p) ==
    /\ pc[p] = "parse"
    /\ LET r == Load(data[p])
       IN  IF r.ok
           THEN /\ old_entries' = [old_entries EXCEPT ![p] = r.set]
                /\ Goto(p, "merge")
                /\ UNCHANGED <<pos, data, new_entries, seenCS, err, holder, lastCS>>
           ELSE Fail(p, "parse")
    /\ UNCHANGED <<exists, content, inputs, faultsLeft, file0>>
    /\ Track(p)

\* Lines 102-113.
MergeStep(p) ==
    /\ pc[p] = "merge"
    /\ new_entries' = [new_entries EXCEPT ![p] =
            Merge(old_entries[p], directory[p], arguments[p], files[p])]
    /\ Goto(p, "commit")
    /\ UNCHANGED <<exists, content, inputs, pos, data, old_entries, seenCS, env,
                   file0>>
    /\ Track(p)

\* A commit that does not compare.
ChangedAlways(new, old) == TRUE

\* A commit that finds every set unchanged.
ChangedNever(new, old) == FALSE

\* Line 115.
Changed(new, old) == new # old

\* Lines 115-117: the comparison, and set_len(0) when the sets differ.
Commit(p) ==
    /\ pc[p] = "commit"
    /\ \/ /\ Changed(new_entries[p], old_entries[p])
          /\ content' = <<>>
          /\ Goto(p, "seek")
          /\ UNCHANGED <<locals, env>>
       \/ /\ Changed(new_entries[p], old_entries[p])
          /\ Fault(p, "set_len")
          /\ UNCHANGED content
       \/ /\ ~Changed(new_entries[p], old_entries[p])
          /\ Goto(p, "ret")
          /\ UNCHANGED <<content, locals, env>>
    /\ UNCHANGED <<exists, inputs, file0>>
    /\ Track(p)

\* A seek that leaves the offset where the read ended.
seek_stay(off) == off

\* SeekFrom::Start(0).
seek_start(off) == 0

\* Line 118.
Seek(p) ==
    /\ pc[p] = "seek"
    /\ \/ /\ pos' = [pos EXCEPT ![p] = seek_start(pos[p])]
          /\ Goto(p, "write")
          /\ UNCHANGED <<data, old_entries, new_entries, seenCS, env>>
       \/ Fault(p, "seek")
    /\ UNCHANGED <<exists, content, inputs, file0>>
    /\ Track(p)

\* Line 119, the first write of writeln!: the serialized set.  A failing
\* write may have put a part of it into the file.
Write(p) ==
    /\ pc[p] = "write"
    /\ LET json_string == to_string_pretty(new_entries[p])
       IN  \/ /\ content' = WriteAt(content, pos[p], json_string)
              /\ pos' = [pos EXCEPT ![p] = @ + Len(json_string)]
              /\ Goto(p, "newline")
              /\ UNCHANGED <<data, old_entries, new_entries, seenCS, env>>
           \/ \E n \in 0..(Len(json_string) - 1) :
                 /\ content' = WriteAt(content, pos[p], SubSeq(json_string, 1, n))
                 /\ Fault(p, "write")
    /\ UNCHANGED <<exists, inputs, file0>>
    /\ Track(p)

\* Line 119, the second write of writeln!: the newline.
Newline(p) ==
    /\ pc[p] = "newline"
    /\ \/ /\ content' = WriteAt(content, pos[p], <<NL>>)
          /\ pos' = [pos EXCEPT ![p] = @ + 1]
          /\ Goto(p, "ret")
          /\ UNCHANGED <<data, old_entries, new_entries, seenCS, env>>
       \/ /\ Fault(p, "write")
          /\ UNCHANGED content
    /\ UNCHANGED <<exists, inputs, file0>>
    /\ Track(p)

\* Lines 122-130: Ok(()), and the handle dropped, which gives the lock back.
Return(p) ==
    /\ pc[p] = "ret"
    /\ Goto(p, "done")
    /\ holder' = Released(p)
    /\ lastCS' = p
    /\ Exit(p)
    /\ UNCHANGED <<exists, content, inputs, err, faultsLeft, file0>>
    /\ Track(p)

Running == {"create", "open", "lock", "read", "parse", "merge", "commit",
            "seek", "write", "newline", "ret"}

\* The statements a process runs with the lock: lines 94-129.
Critical == {"read", "parse", "merge", "commit", "seek", "write", "newline", "ret"}

\* The process is killed; the operating system closes its handles.
Kill(p) ==
    /\ pc[p] \in Running
    /\ faultsLeft > 0
    /\ faultsLeft' = faultsLeft - 1
    /\ Goto(p, "killed")
    /\ holder' = Released(p)
    /\ lastCS' = Broken(p)
    /\ Exit(p)
    /\ UNCHANGED <<exists, content, inputs, err, file0>>
    /\ Track(p)

Step(p) ==
    \/ Create(p) \/ Open(p) \/ Lock(p) \/ Read(p) \/ Parse(p) \/ MergeStep(p)
    \/ Commit(p) \/ Seek(p) \/ Write(p) \/ Newline(p) \/ Return(p)

Next == \E p \in Procs : Step(p) \/ Kill(p)

Spec == Init /\ [][Next]_vars

\* The processes run the same command: the first to get the lock writes, the
\* others find nothing to change.
InitFair ==
    /\ file0 \in InitFiles
    /\ directory = [p \in Procs |-> "/dA"]
    /\ arguments = [p \in Procs |-> O2]
    /\ files = [p \in Procs |-> {"a.c"}]
    /\ faultsLeft \in {0, MaxFaults}
    /\ Fresh0

\* A process that can take a step is scheduled, and lockf returns when the
\* lock stays free.
FairSpec ==
    InitFair /\ [][Next]_vars /\ \A p \in Procs : WF_vars(Step(p))

\* tests::main, lines 287-308: all processes are waited for, then the same
\* commands are run again.
Respawn ==
    /\ round = "first"
    /\ \A p \in Procs : pc[p] = "done"
    /\ round' = "again"
    /\ pc' = [p \in Procs |-> "create"]
    /\ created' = [p \in Procs |-> FALSE]
    /\ wrote' = [p \in Procs |-> FALSE]
    /\ served' = <<>>
    /\ UNCHANGED <<exists, content, holder, directory, arguments, files, argv,
                   compiler, locals, env, file0, torn>>

NextRounds == (\E p \in Procs : Step(p)) \/ Respawn

SpecRounds == InitRounds /\ [][NextRounds]_vars

\* ------------------------------------------------------------------ main
\* The command lines of the shim: a compilation, a command without a source
\* file, and an invocation under a name without the prefix.
Argvs ==
    { <<"cdbgen-cc", "-O2", "a.c">>,
      <<"cdbgen-cc", "-O2">>,
      <<"cc", "-O2", "a.c">> }

\* Line 136: strip_prefix("cdbgen-"), "" for None.
strip_prefix(name) == IF name = "cdbgen-cc" THEN "cc" ELSE ""

\* Line 137: the path which() finds for the name, when it finds one.
which(name) == IF name = "cc" THEN "/bin/cc" ELSE ""

\* Line 183: the argument ends with .c, .cc or .cpp.
IsSource(arg) == arg \in {"a.c", "b.c"}

\* Lines 132-141, 173: find_compiler.  Whether the compiler is on the search
\* path is for the environment to say.
Resolve(p) ==
    /\ pc[p] = "main"
    /\ LET name == strip_prefix(argv[p][1])
       IN  \/ /\ name # ""
              /\ which(name) # ""
              /\ compiler' = [compiler EXCEPT ![p] = which(name)]
              /\ Goto(p, "scan")
              /\ UNCHANGED <<locals, err, holder, lastCS>>
           \/ /\ Fail(p, "resolve")
              /\ UNCHANGED compiler
    /\ UNCHANGED <<exists, content, directory, arguments, files, round, argv,
                   faultsLeft, file0>>
    /\ Track(p)

\* Lines 176-186.
SourceFiles(args) == {args[i] : i \in {j \in 2..Len(args) : IsSource(args[j])}}

\* Lines 176-195: the source files, and with some the call of
\* process_compile_commands_json with argument 0 replaced.
Scan(p) ==
    /\ pc[p] = "scan"
    /\ LET fs == SourceFiles(argv[p])
       IN  \/ /\ fs = {}
              /\ Goto(p, "skip")
              /\ UNCHANGED <<arguments, files, locals, env>>
           \/ /\ fs # {}
              /\ files' = [files EXCEPT ![p] = fs]
              /\ arguments' = [arguments EXCEPT ![p] = <<compiler[p]>> \o Tail(argv[p])]
              /\ Goto(p, "create")
              /\ UNCHANGED <<locals, env>>
           \/ /\ fs # {}
              /\ Fault(p, "current_dir")
              /\ UNCHANGED <<arguments, files>>
    /\ UNCHANGED <<exists, content, directory, round, argv, compiler, file0>>
    /\ Track(p)

\* A main that goes on after an error.
CanLaunchAnyway(l) == l \in {"done", "skip", "failed"}

\* Lines 195-198: exec is reached when the call returned Ok, or was not made.
CanLaunch(l) == l \in {"done", "skip"}

\* Lines 143-151, 198: the compiler takes the place of the process.
Exec(p) ==
    /\ CanLaunch(pc[p])
    /\ \/ /\ Goto(p, "launched")
          /\ UNCHANGED <<locals, env>>
       \/ Fault(p, "launch")
    /\ UNCHANGED <<exists, content, inputs, file0>>
    /\ Track(p)

\* Every process is at the start of main, in the same directory.
InitMain ==
    /\ file0 \in InitFiles
    /\ exists = file0.exists
    /\ content = file0.content
    /\ holder = None
    /\ pc = [p \in Procs |-> "main"]
    /\ directory = [p \in Procs |-> "/dA"]
    /\ arguments = [p \in Procs |-> <<>>]
    /\ files = [p \in Procs |-> {}]
    /\ round = "first"
    /\ argv \in [Procs -> Argvs]
    /\ compiler = [p \in Procs |-> ""]
    /\ pos = [p \in Procs |-> 0]
    /\ data = [p \in Procs |-> <<>>]
    /\ old_entries = [p \in Procs |-> {}]
    /\ new_entries = [p \in Procs |-> {}]
    /\ err = [p \in Procs |-> "none"]
    /\ faultsLeft \in {0, MaxFaults}
    /\ created = [p \in Procs |-> FALSE]
    /\ wrote = [p \in Procs |-> FALSE]
    /\ lastCS = None
    /\ seenCS = [p \in Procs |-> None]
    /\ served = <<>>
    /\ torn = FALSE

NextMain ==
    \E p \in Procs : Resolve(p) \/ Scan(p) \/ Step(p) \/ Exec(p) \/ Kill(p)

SpecMain == InitMain /\ [][NextMain]_vars

\* ------------------------------------------------------------------ claims
\* The set the file holds, as the next call would load it.
Stored == Load(content)

\* C1 (mutual exclusion): at most one process is between the acquisition of
\* the lock (line 92) and its release (line 129), a process that is there owns
\* the lock, and the bytes of the file change only in a step of the process
\* that owns the lock and is in its critical section.
C1_InCritical == \A p \in Procs : pc[p] \in Critical => holder = p

C1_AtMostOne ==
    \A p, q \in Procs : (pc[p] \in Critical /\ pc[q] \in Critical) => p = q

C1_ByTheHolder ==
    content' # content =>
        /\ holder \in Procs
        /\ pc[holder] \in Critical
        /\ pc'[holder] # pc[holder]
        /\ \A q \in Procs \ {holder} : pc'[q] = pc[q]

\* C1: the three together, in every state and every step.
C1_MutualExclusion ==
    /\ [](C1_InCritical /\ C1_AtMostOne)
    /\ [][C1_ByTheHolder]_vars

\* One process writes while the other waits for the lock.
C1_Witness ==
    \E p, q \in Procs : pc[p] = "newline" /\ content # <<>> /\ pc[q] = "lock"

\* C2 (serializability): when all calls have returned Ok, the set in the
\* file is the set some sequential order of the same calls gives, from the
\* file the calls began with.
AllDone == \A p \in Procs : pc[p] = "done"

Orders == {o \in [1..NumProcs -> Procs] : \A i, j \in 1..NumProcs : o[i] = o[j] => i = j}

RECURSIVE RunInOrder(_, _, _)
RunInOrder(S, o, i) ==
    IF i > NumProcs THEN S
    ELSE RunInOrder(Merge(S, directory[o[i]], arguments[o[i]], files[o[i]]), o, i + 1)

C2_Serializable ==
    AllDone =>
        /\ Stored.ok
        /\ \E o \in Orders : Stored.set = RunInOrder(Load(file0.content).set, o, 1)

\* Two calls on the same key with different arguments, on a file that held
\* records: the orders give different sets.
C2_Witness ==
    /\ AllDone
    /\ Load(file0.content).set # {}
    /\ \E o1, o2 \in Orders :
          RunInOrder(Load(file0.content).set, o1, 1) #
              RunInOrder(Load(file0.content).set, o2, 1)

\* C3 (no lost update): processes that each record one file, no two the same
\* (directory, file), on a database that was absent or empty: when all have
\* returned, the file holds one record per process, with the directory, file
\* and arguments of that process; and so it does when the same commands have
\* run a second time.
OwnRecords == UNION {Fresh(directory[p], arguments[p], files[p]) : p \in Procs}

C3_NoLostUpdate ==
    AllDone =>
        /\ Stored.ok
        /\ Stored.set = OwnRecords
        /\ Cardinality(Stored.set) = NumProcs

\* The second run is over.
C3_Witness == AllDone /\ round = "again" /\ Cardinality(Stored.set) = NumProcs

\* C4 (lock liveness): once the operating system fails or kills nothing any
\* more, a process that waits for the lock gets it, and its call returns.
Returned(p) == pc[p] \in {"done", "failed"}

C4_LockLiveness ==
    \A p \in Procs :
        /\ (pc[p] = "lock" /\ faultsLeft = 0) ~> (holder = p)
        /\ (pc[p] = "lock" /\ faultsLeft = 0) ~> Returned(p)

\* A process waits for a lock another process owns, and nothing fails.
C4_Witness ==
    \E p, q \in Procs : pc[p] = "lock" /\ holder = q /\ q # p /\ faultsLeft = 0

\* The records of a set that have the key (directory, file).
WithKey(S, d, f) == {e \in S : e.directory = d /\ e.file = f}

\* The records of a set that the call of p is not about.
Others(S, p) == {e \in S : e.directory # directory[p] \/ e.file \notin files[p]}

\* C5 (supersession): when a call is about to return Ok, the database holds,
\* for every file of the call, one record with the call's directory and that
\* file, and it has the call's arguments.
C5_Supersession ==
    \A p \in Procs :
        pc[p] = "ret" =>
            /\ Stored.ok
            /\ \A f \in files[p] :
                  WithKey(Stored.set, directory[p], f) =
                      {Entry(directory[p], f, arguments[p])}

\* The call found two records for its key, one of them with other arguments.
C5_Witness ==
    \E p \in Procs :
        /\ pc[p] = "ret"
        /\ \E f \in files[p] :
              /\ Cardinality(WithKey(old_entries[p], directory[p], f)) = 2
              /\ Entry(directory[p], f, arguments[p]) \in old_entries[p]

\* C6 (isolation): when a call is about to return Ok, the records of another
\* directory, or of a file that is not among the call's files, are the ones
\* the call loaded: none removed, none altered, none added.
C6_Isolation ==
    \A p \in Procs :
        pc[p] = "ret" =>
            /\ Stored.ok
            /\ Others(Stored.set, p) = Others(old_entries[p], p)

\* The call rewrote a file that held a record of its file in another
\* directory and a record of another file in its directory.
C6_Witness ==
    \E p \in Procs :
        /\ pc[p] = "ret"
        /\ wrote[p]
        /\ \E e \in old_entries[p] : e.directory # directory[p] /\ e.file \in files[p]
        /\ \E e \in old_entries[p] : e.directory = directory[p] /\ e.file \notin files[p]

\* C7 (several files in one call): a call that loaded an empty database and
\* is about to return Ok leaves one record per file of the call, each with the
\* call's directory and the call's arguments, and no other record.
C7_MultiFile ==
    \A p \in Procs :
        (pc[p] = "ret" /\ TrimIsEmpty(data[p])) =>
            /\ Stored.ok
            /\ Cardinality(Stored.set) = Cardinality(files[p])
            /\ \A f \in files[p] : Entry(directory[p], f, arguments[p]) \in Stored.set
            /\ \A e \in Stored.set :
                  e.directory = directory[p] /\ e.arguments = arguments[p]

\* A call with two files on an empty database.
C7_Witness ==
    \E p \in Procs :
        pc[p] = "ret" /\ TrimIsEmpty(data[p]) /\ Cardinality(files[p]) = 2

\* C8 (idempotence): a call whose critical section comes right after the one
\* of a call that returned Ok with the same directory, arguments and files
\* changes no byte of the file: the file is what the call read.
C8_Idempotent ==
    \A q \in Procs :
        (/\ pc[q] = "ret"
         /\ seenCS[q] \in Procs
         /\ Input(seenCS[q]) = Input(q)) =>
            /\ ~wrote[q]
            /\ content = data[q]

\* The second of two equal calls, on a file the first one wrote.
C8_Witness ==
    \E q \in Procs :
        /\ pc[q] = "ret"
        /\ seenCS[q] \in Procs \ {q}
        /\ Input(seenCS[q]) = Input(q)
        /\ wrote[seenCS[q]]
        /\ content # <<>>

\* C9 (bootstrap): a process that is past line 83 has a file to open; a call
\* that made the file and read nothing from it leaves the records of the call
\* and no other; no call returns the error AlreadyExists; and the step that
\* creates the file changes no byte of a file that is there.
C9_Created ==
    \A p \in Procs :
        /\ pc[p] \in (Running \ {"create"}) => exists
        /\ (pc[p] = "ret" /\ created[p] /\ data[p] = <<>>) =>
              Stored.ok /\ Stored.set = Fresh(directory[p], arguments[p], files[p])
        /\ err[p] # "AlreadyExists"

C9_CreateKeeps ==
    \A p \in Procs :
        (pc[p] = "create" /\ pc'[p] # "create") => content' = content

\* C9: the two together, in every state and every step.
C9_Bootstrap == []C9_Created /\ [][C9_CreateKeeps]_vars

\* The database was absent; one process made it and wrote its records, the
\* other found it there.
C9_Witness ==
    \E p, q \in Procs :
        /\ ~file0.exists
        /\ created[p] /\ pc[p] = "done" /\ content # <<>>
        /\ ~created[q] /\ pc[q] = "open"

\* C10 (failure before the truncation): the errors a call can return before
\* line 117.
EarlyErrors == {"create", "AlreadyExists", "open", "lock", "read", "parse"}

FailedEarly(p) == pc[p] = "failed" /\ err[p] \in EarlyErrors

\* C10 as claimed: a call that failed before line 117 left the file as it
\* was, in existence and in bytes.
C10_FileAsBefore ==
    \A p \in Procs : FailedEarly(p) => (~created[p] /\ ~wrote[p])

\* C10 as amended: a call that failed before line 117 changed no byte of the
\* file; it may have created the file, empty, when there was none.
C10_BytesAsBefore ==
    \A p \in Procs :
        FailedEarly(p) => (~wrote[p] /\ (created[p] => ~file0.exists))

\* A call failed to read or to parse a file with bytes in it.
C10_Witness ==
    \E p \in Procs :
        pc[p] = "failed" /\ err[p] \in {"read", "parse"} /\ content # <<>>

\* C11 (last writer wins): when all calls have returned Ok, every key a call
\* named has one record, and its arguments are those of the call, among the
\* calls that named the key, whose critical section was the last.
Names(p, d, f) == directory[p] = d /\ f \in files[p]

LastServed(d, f) ==
    LET n == CHOOSE i \in DOMAIN served :
                 /\ Names(served[i], d, f)
                 /\ \A j \in DOMAIN served : Names(served[j], d, f) => j <= i
    IN  served[n]

C11_LastWriterWins ==
    AllDone =>
        \A p \in Procs : \A f \in files[p] :
            WithKey(Stored.set, directory[p], f) =
                {Entry(directory[p], f, arguments[LastServed(directory[p], f)])}

\* Two calls named the same key with different arguments.
C11_Witness ==
    /\ AllDone
    /\ \E p, q \in Procs :
          /\ directory[p] = directory[q]
          /\ files[p] \cap files[q] # {}
          /\ arguments[p] # arguments[q]

\* C12 (the compiler is launched after success only): a process whose
\* compiler was launched has resolved it, has returned no error, and has
\* either no source file or a call of process_compile_commands_json that
\* returned Ok; a process that returned an error stays as it is.
Range(q) == {q[i] : i \in DOMAIN q}

C12_Launched ==
    \A p \in Procs :
        pc[p] = "launched" =>
            /\ compiler[p] # ""
            /\ err[p] = "none"
            /\ SourceFiles(argv[p]) = {} \/ p \in Range(served)

C12_FailedStays ==
    \A p \in Procs : pc[p] = "failed" => pc'[p] = "failed"

C12_LaunchGating == []C12_Launched /\ [][C12_FailedStays]_vars

\* One process launched its compiler after recording, another one returned
\* an error of the synchronisation.
C12_Witness ==
    \E p, q \in Procs :
        /\ pc[p] = "launched" /\ p \in Range(served)
        /\ pc[q] = "failed" /\ err[q] \in {"lock", "read", "parse", "write"}

\* C13 (commit only on change): a call is past set_len(0) only when the set
\* it computed differs from the set it loaded, and at its return it has
\* changed the bytes of the file exactly when the two sets differ; the file
\* then holds the serialization of the computed set.
C13_CommitOnlyOnChange ==
    \A p \in Procs :
        /\ pc[p] \in InWrite => new_entries[p] # old_entries[p]
        /\ pc[p] = "ret" =>
              /\ wrote[p] <=> new_entries[p] # old_entries[p]
              /\ wrote[p] => content = to_string_pretty(new_entries[p]) \o <<NL>>

\* A call returns without a write from a set that is not empty, after
\* another call has written.
C13_Witness ==
    \E p, q \in Procs :
        /\ pc[p] = "ret" /\ ~wrote[p] /\ old_entries[p] # {}
        /\ pc[q] = "done" /\ wrote[q]

\* C14 (a parse failure is an error): a call that has read text which is not
\* empty after trimming and which from_str rejects leaves line 100 with the
\* parse error (unless it is killed there), with the file as it was; no call
\* goes on past line 101 with such text, and a call that returned the parse
\* error has written nothing.
Invalid(s) == ~TrimIsEmpty(s) /\ ~from_str(s).ok

C14_NotPassed ==
    \A p \in Procs :
        /\ pc[p] \in {"merge", "commit", "seek", "write", "newline", "ret"}
              => ~Invalid(data[p])
        /\ err[p] = "parse" => pc[p] = "failed" /\ ~wrote[p]

C14_FailsAtParse ==
    \A p \in Procs :
        (pc[p] = "parse" /\ Invalid(data[p]) /\ pc'[p] # "parse") =>
            \/ pc'[p] = "killed"
            \/ pc'[p] = "failed" /\ err'[p] = "parse" /\ content' = content

C14_ParseFailureIsError == []C14_NotPassed /\ [][C14_FailsAtParse]_vars

\* A call returned the parse error, and the text is still in the file.
C14_Witness ==
    \E p \in Procs :
        pc[p] = "failed" /\ err[p] = "parse" /\ Invalid(content)

\* C15 (the lock is released on every exit path): a call that is over, by
\* Ok, by an error or by the death of its process, owns no lock; and a
\* process that waits for a lock another process owns gets the lock, unless
\* its own lock call fails or it is killed while it waits.
Ended(p) == pc[p] \in {"done", "failed", "killed"}

C15_NotHeldAfterEnd == \A p \in Procs : Ended(p) => holder # p

C15_ReleaseOnExit ==
    /\ []C15_NotHeldAfterEnd
    /\ \A q \in Procs :
          (pc[q] = "lock" /\ holder \notin {None, q})
              ~> (holder = q \/ pc[q] \in {"failed", "killed"})

\* A process was killed between set_len and the end of the write, the lock
\* is free and another process is at its lock call.
C15_Witness ==
    \E p, q \in Procs :
        pc[p] = "killed" /\ torn /\ pc[q] = "lock" /\ holder = None

\* C16 (no torn reads): as long as no process has failed or was killed
\* between set_len and the end of the write, the text a call has read is the
\* file as it was at the start (empty, when the database was new), or it is
\* the complete serialization of one record set, written by another call
\* whose write has ended.
Complete(d) == Load(d).ok /\ d = to_string_pretty(Load(d).set) \o <<NL>>

C16_NoTornReads ==
    ~torn =>
        \A p \in Procs :
            pc[p] \in Critical \ {"read"} =>
                \/ data[p] = file0.content
                \/ /\ Complete(data[p])
                   /\ \E q \in Procs \ {p} : wrote[q] /\ pc[q] \in {"done", "killed"}

\* A call has read what another call wrote over a database that was empty.
C16_Witness ==
    \E p \in Procs :
        /\ ~torn /\ file0.content = <<>>
        /\ pc[p] = "parse" /\ data[p] # <<>>

\* C17 (the output is determined by the set): the file a call has written
\* is "[", the records of the set the call computed, each once, in strictly
\* ascending lexicographic order of directory, file, arguments, then "]" and
\* a newline; the text is therefore the same for every call that computes
\* the set, however the set was put together.
Flat(e) == <<e.directory, e.file>> \o e.arguments

LexLess(u, v) ==
    \E i \in 1..(Len(u) + 1) :
        /\ \A j \in 1..(i - 1) : j <= Len(v) /\ u[j] = v[j]
        /\ \/ i = Len(u) + 1 /\ i <= Len(v)
           \/ i <= Len(u) /\ i <= Len(v) /\ StrLess(u[i], v[i])

C17_Deterministic ==
    \A p \in Procs :
        (pc[p] = "ret" /\ wrote[p]) =>
            LET n == Len(content)
                recs == 2..(n - 2)
            IN  /\ n >= 3
                /\ content[1] = LB /\ content[n - 1] = RB /\ content[n] = NL
                /\ \A i \in recs : content[i].k = "rec"
                /\ {content[i].e : i \in recs} = new_entries[p]
                /\ \A i, j \in recs :
                      i < j => LexLess(Flat(content[i].e), Flat(content[j].e))

\* A call has written three or more records, two of them for one key, over
\* a file that did not have them in this order.
C17_Witness ==
    \E p \in Procs :
        /\ pc[p] = "ret" /\ wrote[p]
        /\ Cardinality(new_entries[p]) >= 3
        /\ \E a, b \in new_entries[p] :
              a # b /\ a.directory = b.directory /\ a.file = b.file

\* C18 (one record per key): when the database was absent or empty at the
\* start, the file never holds two records with the same directory and file,
\* whatever calls have run and in whatever order.
RecordsIn(c) == {c[i].e : i \in {j \in DOMAIN c : c[j].k = "rec"}}

UniqueKeys(S) ==
    \A a, b \in S : (a.directory = b.directory /\ a.file = b.file) => a = b

C18_KeyUniqueness ==
    TrimIsEmpty(file0.content) =>
        /\ UniqueKeys(RecordsIn(content))
        /\ Stored.ok => UniqueKeys(Stored.set)

\* From an empty database two calls with different arguments for one key
\* have returned Ok, and the database holds two records.
C18_Witness ==
    /\ TrimIsEmpty(file0.content)
    /\ AllDone
    /\ Cardinality(Stored.set) >= 2
    /\ \E p, q \in Procs :
          /\ directory[p] = directory[q]
          /\ files[p] \cap files[q] # {}
          /\ arguments[p] # arguments[q]

\* C19 (keys only grow): the keys (directory, file) in the file when a call
\* gives the lock back include the keys that were there when the call took
\* the lock.  The call that is killed with the lock is left out, and so is
\* the call whose seek or write fails after set_len(0); with only the killed
\* call left out the statement does not hold.
KeysOf(c) == {<<e.directory, e.file>> : e \in RecordsIn(c)}

\* The bytes of the file when p took the lock.
AtLock(p) == IF pc[p] = "read" THEN content ELSE data[p]

GivesBack(p) == holder = p /\ holder' # p

FailsInWrite(p) == pc'[p] = "failed" /\ err'[p] \in {"seek", "write"}

KilledWriter == \E p \in Procs : pc[p] = "killed" /\ wrote[p]

ReadEmptied(q) == KilledWriter /\ data[q] = <<>> /\ RecordsIn(file0.content) # {}

C20_LoadsEmpty ==
    \A q \in Procs :
        /\ (pc[q] \in {"merge", "commit", "seek", "write", "newline", "ret"}
               /\ ReadEmptied(q)) => old_entries[q] = {}
        /\ (pc[q] = "ret" /\ ReadEmptied(q)) =>
              /\ Stored.ok
              /\ Stored.set = Fresh(directory[q], arguments[q], files[q])

C20_ParsePasses ==
    \A q \in Procs :
        (pc[q] = "parse" /\ ReadEmptied(q) /\ pc'[q] # "parse") =>
            pc'[q] \in {"merge", "killed"}

C20_CrashConsequence == []C20_LoadsEmpty /\ [][C20_ParsePasses]_vars

\* The call after the kill is at its return, and records the database had
\* at the start are not in it any more.
C20_Witness ==
    \E q \in Procs :
        /\ pc[q] = "ret" /\ ReadEmptied(q)
        /\ ~(RecordsIn(file0.content) \subseteq Stored.set)

====
